---- MODULE Spec2Model ----
(***************************************************************************)
(* Job-part plan status cells and the job status manager of the storage    *)
(* transfer engine (package ste).                                          *)
(*                                                                         *)
(* src/ste/jobStatusManager.go holds two revisions of the status manager:  *)
(* lines 21-100 keep the summary by value inside jstm (ResurrectSummary,   *)
(* SendJobPartCreatedMsg, SendXferDoneMsg, ListJobSummary) and lines       *)
(* 122-205 keep a pointer to the caller's summary (InitStatusMgr,          *)
(* SMUpdateJobpartCreated, SMUpdateXferDone, ListJobSummary).  A build     *)
(* holds one of them; the variable revision says which.                    *)
(***************************************************************************)
EXTENDS Integers, Sequences, FiniteSets, TLC

\* ------------------------------------------------------------------ bounds

\* Calls started on the status manager in one run.
MaxCalls == 3

\* Largest number of transfers in the job part.
MaxTransfers == 2

\* SetTransferStatus calls started in one run.
MaxSets == 3

\* Transfer outcomes reported to each of the two runs compared.
MaxOutcomes == 3

Workers == {"w1", "w2"}

\* ------------------------------------------------------- transfer statuses

\* common.ETransferStatus: the six values the switch of the status manager
\* names, and two that are no terminal outcome of a transfer.
TransferStatuses ==
    {"NotStarted", "InProgress", "Success", "Failed",
     "TierAvailabilityCheckFailure", "BlobTierFailure",
     "SkippedEntityAlreadyExists", "SkippedBlobHasSnapshots"}

\* ----------------------------------------------------------- the summary

\* common.ListJobSummaryResponse: the fields the status manager touches.
ZeroSummary ==
    [Timestamp |-> 0, JobID |-> "", ErrorMsg |-> "",
     CompleteJobOrdered |-> FALSE,
     TotalTransfers |-> 0, FileTransfers |-> 0, FolderPropertyTransfers |-> 0,
     TotalBytesEnumerated |-> 0, TotalBytesExpected |-> 0,
     TransfersCompleted |-> 0, TransfersFailed |-> 0, TransfersSkipped |-> 0,
     TotalBytesTransferred |-> 0,
     FailedTransfers |-> <<>>, SkippedTransfers |-> <<>>]

\* xferDoneMsg = common.TransferDetail: the fields the status manager reads.
XferDoneMsgs ==
    {m \in [TransferStatus : TransferStatuses, TransferSize : {0, 2}] :
        m.TransferStatus # "Success" => m.TransferSize = 2}

\* jobPartCreatedMsg values sent by the job-part creator.
JobPartCreatedMsgs ==
    {[totalTransfers |-> 3, isFinalPart |-> FALSE, totalBytesEnumerated |-> 5,
      fileTransfers |-> 2, folderTransfer |-> 1],
     [totalTransfers |-> 1, isFinalPart |-> TRUE, totalBytesEnumerated |-> 2,
      fileTransfers |-> 1, folderTransfer |-> 0],
     [totalTransfers |-> 0, isFinalPart |-> FALSE, totalBytesEnumerated |-> 0,
      fileTransfers |-> 0, folderTransfer |-> 0]}

\* Values time.Now().UTC() returns during the run (the persisted summaries
\* were stamped at 1, a fresh one carries the zero time).
Times == {2, 3}

\* The job manager's own job id (jm.jobID).
jobID == "job"

\* Summaries a caller hands to ResurrectSummary / InitStatusMgr: a fresh one
\* and two persisted by an earlier run of the job.  Their counts agree with
\* their detail lists.
ResumedSummary ==
    [ZeroSummary EXCEPT
       !.Timestamp = 1, !.JobID = jobID, !.CompleteJobOrdered = TRUE,
       !.TotalTransfers = 4, !.FileTransfers = 3, !.FolderPropertyTransfers = 1,
       !.TotalBytesEnumerated = 7, !.TotalBytesExpected = 7,
       !.TransfersCompleted = 1, !.TransfersFailed = 1, !.TransfersSkipped = 1,
       !.TotalBytesTransferred = 2,
       !.FailedTransfers =
           <<[TransferStatus |-> "BlobTierFailure", TransferSize |-> 2]>>,
       !.SkippedTransfers =
           <<[TransferStatus |-> "SkippedEntityAlreadyExists", TransferSize |-> 0]>>]

PartialSummary ==
    [ZeroSummary EXCEPT
       !.Timestamp = 1, !.JobID = jobID, !.ErrorMsg = "cancelled",
       !.TotalTransfers = 3, !.FileTransfers = 2, !.FolderPropertyTransfers = 1,
       !.TotalBytesEnumerated = 5, !.TotalBytesExpected = 5,
       !.TransfersFailed = 1,
       !.FailedTransfers =
           <<[TransferStatus |-> "Failed", TransferSize |-> 0]>>]

CallerSummaries == {"fresh", "resumed", "partial"}

SummaryOf(name) ==
    CASE name = "fresh" -> ZeroSummary
      [] name = "resumed" -> ResumedSummary
      [] name = "partial" -> PartialSummary

\* Addresses: nil, the summary embedded in jstm (by-value revision), and the
\* caller's summary objects (pointer revision).
NULL == "nil"
EMBEDDED == "&jstm.js"
Addrs == {EMBEDDED} \cup CallerSummaries

VARIABLES
    revision,   \* "value" (lines 21-100) or "pointer" (lines 122-205)
    mem,        \* Addrs -> summary: the summary objects
    jstm,       \* [m: holder of the mutex or NULL, js: address or NULL]
    pc,         \* per worker: "idle", "lock", "body" or "panicked"
    op,         \* per worker: the call in progress, [name, msg]
    ljs,        \* per worker: the local js of the call in progress
    ret,        \* per worker: [has, val] what the last ListJobSummary returned
    crashed,    \* the process died of an unrecovered panic
    calls,      \* calls started so far
    acct        \* what has been reported since the summary was installed

aggVars == <<revision, mem, jstm, pc, op, ljs, ret, crashed, calls, acct>>

\* The job-part plan (src/unnamed/part_000) and its callers.
VARIABLES
    NumTransfers,           \* JobPartPlanHeader.NumTransfers
    atomicTransferStatus,   \* record index -> JobPartPlanTransfer.atomicTransferStatus
    spc,                    \* per worker: "idle", "load" or "cas"
    sarg,                   \* per worker: [index, status] of its SetTransferStatus
    startVal,               \* per worker: the value its last atomic load returned
    sets                    \* SetTransferStatus calls started so far

planVars == <<NumTransfers, atomicTransferStatus, spc, sarg, startVal, sets>>

\* Two runs fed the same transfer outcomes in different orders.
VARIABLES
    outcomes,   \* the outcomes reported, as the sequence of the first run
    sumA,       \* the summary of run A
    sumB,       \* the summary of run B
    doneA,      \* positions of outcomes already reported in run A
    doneB       \* positions of outcomes already reported in run B

orderVars == <<outcomes, sumA, sumB, doneA, doneB>>

\* The plan file: its mapping, the fields and strings laid out in it, and
\* the calls of one holder of the header pointer.
VARIABLES
    mapped,             \* the region is mapped; FALSE once Unmap was called
    records,            \* record index -> [SrcOffset, SrcLength, DstLength]
    blob,               \* the bytes of the region after the last record
    written,            \* record index -> [src, dst] the strings given at creation
    atomicJobStatus,    \* JobPartPlanHeader.atomicJobStatus
    res                 \* what the last accessor call came to

layoutVars == <<mapped, records, blob, written, atomicJobStatus, res>>

vars == <<aggVars, planVars, orderVars, layoutVars>>

notAgg == <<planVars, orderVars, layoutVars>>
notPlan == <<aggVars, orderVars, layoutVars>>
notOrder == <<aggVars, planVars, layoutVars>>
notLayout == <<aggVars, planVars, orderVars>>

\* ------------------------------------------------- the updates, as functions

\* The counts are uint32 and the byte counters uint64 (lines 132-136; += needs
\* both sides of one type), so += wraps at 2^32 and 2^64.  MaxCalls and the
\* message values keep every total of a run far below 2^31, where the wrap
\* is never reached; the additions are written without it.

\* SendJobPartCreatedMsg, lines 53-58 (by-value revision).
SendJobPartCreatedMsgBody(js, msg) ==
    [js EXCEPT
       !.CompleteJobOrdered = js.CompleteJobOrdered \/ msg.isFinalPart,
       !.TotalTransfers = js.TotalTransfers + msg.totalTransfers,
       !.FileTransfers = js.FileTransfers + msg.fileTransfers,
       !.FolderPropertyTransfers = js.FolderPropertyTransfers + msg.folderTransfer,
       !.TotalBytesEnumerated = js.TotalBytesEnumerated + msg.totalBytesEnumerated,
       !.TotalBytesExpected = js.TotalBytesExpected + msg.totalBytesEnumerated]

\* SMUpdateJobpartCreated with the file and folder counts crossed.
SMUpdateJobpartCreatedCrossed(js, msg) ==
    [js EXCEPT
       !.CompleteJobOrdered = js.CompleteJobOrdered \/ msg.isFinalPart,
       !.TotalTransfers = js.TotalTransfers + msg.totalTransfers,
       !.FileTransfers = js.FileTransfers + msg.folderTransfer,
       !.FolderPropertyTransfers = js.FolderPropertyTransfers + msg.fileTransfers,
       !.TotalBytesEnumerated = js.TotalBytesEnumerated + msg.totalBytesEnumerated,
       !.TotalBytesExpected = js.TotalBytesExpected + msg.totalBytesEnumerated]

\* SMUpdateJobpartCreated, lines 170-175 (pointer revision).
SMUpdateJobpartCreatedBody(js, msg) ==
    [js EXCEPT
       !.CompleteJobOrdered = js.CompleteJobOrdered \/ msg.isFinalPart,
       !.TotalTransfers = js.TotalTransfers + msg.totalTransfers,
       !.FileTransfers = js.FileTransfers + msg.fileTransfers,
       !.FolderPropertyTransfers = js.FolderPropertyTransfers + msg.folderTransfer,
       !.TotalBytesEnumerated = js.TotalBytesEnumerated + msg.totalBytesEnumerated,
       !.TotalBytesExpected = js.TotalBytesExpected + msg.totalBytesEnumerated]

\* SendXferDoneMsg with a default case that counts the transfer as completed.
SendXferDoneMsgDefaultCompleted(js, msg) ==
    IF msg.TransferStatus \in
           {"Failed", "TierAvailabilityCheckFailure", "BlobTierFailure"}
      THEN [js EXCEPT
              !.TransfersFailed = js.TransfersFailed + 1,
              !.FailedTransfers = Append(js.FailedTransfers, msg)]
      ELSE IF msg.TransferStatus \in
                  {"SkippedEntityAlreadyExists", "SkippedBlobHasSnapshots"}
             THEN [js EXCEPT
                     !.TransfersSkipped = js.TransfersSkipped + 1,
                     !.SkippedTransfers = Append(js.SkippedTransfers, msg)]
             ELSE [js EXCEPT
                     !.TransfersCompleted = js.TransfersCompleted + 1,
                     !.TotalBytesTransferred =
                         js.TotalBytesTransferred + msg.TransferSize]

\* SendXferDoneMsg counting failures and skips without recording the detail.
SendXferDoneMsgNoAppend(js, msg) ==
    CASE msg.TransferStatus = "Success" ->
           [js EXCEPT
              !.TransfersCompleted = js.TransfersCompleted + 1,
              !.TotalBytesTransferred = js.TotalBytesTransferred + msg.TransferSize]
      [] msg.TransferStatus \in
             {"Failed", "TierAvailabilityCheckFailure", "BlobTierFailure"} ->
           [js EXCEPT !.TransfersFailed = js.TransfersFailed + 1]
      [] msg.TransferStatus \in
             {"SkippedEntityAlreadyExists", "SkippedBlobHasSnapshots"} ->
           [js EXCEPT !.TransfersSkipped = js.TransfersSkipped + 1]
      [] OTHER -> js

\* SendXferDoneMsg, the switch of lines 66-79 (by-value revision).
SendXferDoneMsgBody(js, msg) ==
    CASE msg.TransferStatus = "Success" ->
           [js EXCEPT
              !.TransfersCompleted = js.TransfersCompleted + 1,
              !.TotalBytesTransferred = js.TotalBytesTransferred + msg.TransferSize]
      [] msg.TransferStatus \in
             {"Failed", "TierAvailabilityCheckFailure", "BlobTierFailure"} ->
           [js EXCEPT
              !.TransfersFailed = js.TransfersFailed + 1,
              !.FailedTransfers = Append(js.FailedTransfers, msg)]
      [] msg.TransferStatus \in
             {"SkippedEntityAlreadyExists", "SkippedBlobHasSnapshots"} ->
           [js EXCEPT
              !.TransfersSkipped = js.TransfersSkipped + 1,
              !.SkippedTransfers = Append(js.SkippedTransfers, msg)]
      [] OTHER -> js

\* SMUpdateXferDone with BlobTierFailure listed in the skipped case.
SMUpdateXferDoneTierAsSkipped(js, msg) ==
    CASE msg.TransferStatus = "Success" ->
           [js EXCEPT
              !.TransfersCompleted = js.TransfersCompleted + 1,
              !.TotalBytesTransferred = js.TotalBytesTransferred + msg.TransferSize]
      [] msg.TransferStatus \in {"Failed", "TierAvailabilityCheckFailure"} ->
           [js EXCEPT
              !.TransfersFailed = js.TransfersFailed + 1,
              !.FailedTransfers = Append(js.FailedTransfers, msg)]
      [] msg.TransferStatus \in
             {"SkippedEntityAlreadyExists", "SkippedBlobHasSnapshots",
              "BlobTierFailure"} ->
           [js EXCEPT
              !.TransfersSkipped = js.TransfersSkipped + 1,
              !.SkippedTransfers = Append(js.SkippedTransfers, msg)]
      [] OTHER -> js

\* SMUpdateXferDone with the transferred bytes assigned instead of added.
SMUpdateXferDoneLastBytes(js, msg) ==
    CASE msg.TransferStatus = "Success" ->
           [js EXCEPT
              !.TransfersCompleted = js.TransfersCompleted + 1,
              !.TotalBytesTransferred = msg.TransferSize]
      [] msg.TransferStatus \in
             {"Failed", "TierAvailabilityCheckFailure", "BlobTierFailure"} ->
           [js EXCEPT
              !.TransfersFailed = js.TransfersFailed + 1,
              !.FailedTransfers = Append(js.FailedTransfers, msg)]
      [] msg.TransferStatus \in
             {"SkippedEntityAlreadyExists", "SkippedBlobHasSnapshots"} ->
           [js EXCEPT
              !.TransfersSkipped = js.TransfersSkipped + 1,
              !.SkippedTransfers = Append(js.SkippedTransfers, msg)]
      [] OTHER -> js

\* SMUpdateXferDone, the switch of lines 183-196 (pointer revision).
SMUpdateXferDoneBody(js, msg) ==
    CASE msg.TransferStatus = "Success" ->
           [js EXCEPT
              !.TransfersCompleted = js.TransfersCompleted + 1,
              !.TotalBytesTransferred = js.TotalBytesTransferred + msg.TransferSize]
      [] msg.TransferStatus \in
             {"Failed", "TierAvailabilityCheckFailure", "BlobTierFailure"} ->
           [js EXCEPT
              !.TransfersFailed = js.TransfersFailed + 1,
              !.FailedTransfers = Append(js.FailedTransfers, msg)]
      [] msg.TransferStatus \in
             {"SkippedEntityAlreadyExists", "SkippedBlobHasSnapshots"} ->
           [js EXCEPT
              !.TransfersSkipped = js.TransfersSkipped + 1,
              !.SkippedTransfers = Append(js.SkippedTransfers, msg)]
      [] OTHER -> js

\* ListJobSummary starting the counts of finished transfers over on display.
ListJobSummaryResetsCounts(js, now) ==
    [js EXCEPT
       !.Timestamp = now,
       !.JobID = jobID,
       !.CompleteJobOrdered = FALSE,
       !.ErrorMsg = "",
       !.TransfersCompleted = 0,
       !.TotalBytesTransferred = 0]

\* ListJobSummary, lines 88-91 (by-value revision): the display fields are
\* written into the shared summary itself, which is then copied out.
ListJobSummaryByValueBody(js, now) ==
    [js EXCEPT
       !.Timestamp = now,
       !.JobID = jobID,
       !.CompleteJobOrdered = FALSE,
       !.ErrorMsg = ""]

\* ListJobSummary, lines 203-204 (pointer revision): a plain copy.
ListJobSummaryBody(js) == js

\* ------------------------------------------------------------ bookkeeping

\* Nothing reported yet on the summary `seed`.
AcctOf(installed, seed) ==
    [installed |-> installed, seed |-> seed, nUpd |-> 0, anyFinal |-> FALSE,
     totalTransfers |-> 0, fileTransfers |-> 0, folderTransfer |-> 0,
     totalBytesEnumerated |-> 0]

AcctCreated(a, msg) ==
    [a EXCEPT
       !.nUpd = a.nUpd + 1,
       !.anyFinal = a.anyFinal \/ msg.isFinalPart,
       !.totalTransfers = a.totalTransfers + msg.totalTransfers,
       !.fileTransfers = a.fileTransfers + msg.fileTransfers,
       !.folderTransfer = a.folderTransfer + msg.folderTransfer,
       !.totalBytesEnumerated = a.totalBytesEnumerated + msg.totalBytesEnumerated]

AcctDone(a) == [a EXCEPT !.nUpd = a.nUpd + 1]

NoMsg == [none |-> TRUE]
NoOp == [name |-> "none", msg |-> NoMsg]
NoRet == [has |-> FALSE, val |-> ZeroSummary]

\* ------------------------------------------------------------------- Init

AggInit ==
    /\ revision \in {"value", "pointer"}
    /\ mem = [a \in Addrs |-> IF a = EMBEDDED THEN ZeroSummary ELSE SummaryOf(a)]
    /\ jstm = [m |-> NULL, js |-> IF revision = "value" THEN EMBEDDED ELSE NULL]
    /\ pc = [w \in Workers |-> "idle"]
    /\ op = [w \in Workers |-> NoOp]
    /\ ljs = [w \in Workers |-> NULL]
    /\ ret = [w \in Workers |-> NoRet]
    /\ crashed = FALSE
    /\ calls = 0
    /\ acct = AcctOf(FALSE, ZeroSummary)

\* ------------------------------------------------------- steps of a call

\* A worker enters function `name` with argument `msg`; `local` is what the
\* statements before jstm.m.Lock() leave in the local js.
Enter(w, rev, name, msg, local) ==
    /\ ~crashed
    /\ revision = rev
    /\ pc[w] = "idle"
    /\ calls < MaxCalls
    /\ calls' = calls + 1
    /\ pc' = [pc EXCEPT ![w] = "lock"]
    /\ op' = [op EXCEPT ![w] = [name |-> name, msg |-> msg]]
    /\ ljs' = [ljs EXCEPT ![w] = local]
    /\ UNCHANGED <<revision, mem, jstm, ret, crashed, acct, notAgg>>

\* jstm.m.Lock()
Lock(w) ==
    /\ ~crashed
    /\ pc[w] = "lock"
    /\ jstm.m = NULL
    /\ jstm' = [jstm EXCEPT !.m = w]
    /\ pc' = [pc EXCEPT ![w] = "body"]
    /\ UNCHANGED <<revision, mem, op, ljs, ret, crashed, calls, acct, notAgg>>

\* The worker is inside function `name`, holding the mutex.
InBody(w, name) ==
    /\ ~crashed
    /\ pc[w] = "body"
    /\ op[w].name = name
    /\ jstm.m = w

\* A panic inside the critical section: the deferred Unlock runs and the
\* process dies, no recover being installed.
Panic(w) ==
    /\ crashed' = TRUE
    /\ pc' = [pc EXCEPT ![w] = "panicked"]
    /\ jstm' = [jstm EXCEPT !.m = NULL]
    /\ UNCHANGED <<revision, mem, op, ljs, ret, calls, acct, notAgg>>

\* A normal return from the critical section: deferred jstm.m.Unlock().
Return(w) ==
    /\ pc' = [pc EXCEPT ![w] = "idle"]
    /\ jstm' = [jstm EXCEPT !.m = NULL]

\* --------------------------------------- by-value revision, lines 21-100

\* SendJobPartCreatedMsg (lines 48-59): js := &jstm.js, then Lock.
CallSendJobPartCreatedMsg(w) ==
    \E msg \in JobPartCreatedMsgs :
        Enter(w, "value", "SendJobPartCreatedMsg", msg, EMBEDDED)

SendJobPartCreatedMsg(w) ==
    /\ InBody(w, "SendJobPartCreatedMsg")
    /\ mem' = [mem EXCEPT ![ljs[w]] = SendJobPartCreatedMsgBody(@, op[w].msg)]
    /\ acct' = AcctCreated(acct, op[w].msg)
    /\ Return(w)
    /\ UNCHANGED <<revision, op, ljs, ret, crashed, calls, notAgg>>

\* SendXferDoneMsg (lines 61-80).
CallSendXferDoneMsg(w) ==
    \E msg \in XferDoneMsgs :
        Enter(w, "value", "SendXferDoneMsg", msg, EMBEDDED)

SendXferDoneMsg(w) ==
    /\ InBody(w, "SendXferDoneMsg")
    /\ mem' = [mem EXCEPT ![ljs[w]] = SendXferDoneMsgBody(@, op[w].msg)]
    /\ acct' = AcctDone(acct)
    /\ Return(w)
    /\ UNCHANGED <<revision, op, ljs, ret, crashed, calls, notAgg>>

\* ListJobSummary (lines 82-93).
CallListJobSummaryByValue(w) ==
    Enter(w, "value", "ListJobSummaryByValue", NoMsg, EMBEDDED)

ListJobSummaryByValue(w) ==
    /\ InBody(w, "ListJobSummaryByValue")
    /\ \E now \in Times :
         /\ mem' = [mem EXCEPT ![ljs[w]] = ListJobSummaryByValueBody(@, now)]
         /\ ret' = [ret EXCEPT ![w] = [has |-> TRUE, val |-> mem'[ljs[w]]]]
    /\ Return(w)
    /\ UNCHANGED <<revision, op, ljs, crashed, calls, acct, notAgg>>

\* ResurrectSummary (lines 95-100): the summary is passed by value and
\* stored over jstm.js, whatever it held.
CallResurrectSummary(w) ==
    \E s \in CallerSummaries :
        Enter(w, "value", "ResurrectSummary", SummaryOf(s), NULL)

ResurrectSummary(w) ==
    /\ InBody(w, "ResurrectSummary")
    /\ mem' = [mem EXCEPT ![EMBEDDED] = op[w].msg]
    /\ acct' = AcctOf(TRUE, op[w].msg)
    /\ Return(w)
    /\ UNCHANGED <<revision, op, ljs, ret, crashed, calls, notAgg>>

\* ---------------------------------------- pointer revision, lines 122-205

\* jm.Panic(err): logs and panics; it does not return.
jmPanic(w) == Panic(w)

\* A nil pointer dereference: a run-time panic.
NilDereference(w) == Panic(w)

\* InitStatusMgr (lines 153-162).
CallInitStatusMgr(w) ==
    \E s \in CallerSummaries :
        Enter(w, "pointer", "InitStatusMgr", [ptr |-> s], NULL)

InitStatusMgr(w) ==
    /\ InBody(w, "InitStatusMgr")
    /\ IF jstm.js # NULL
         THEN jmPanic(w)
         ELSE /\ jstm' = [m |-> NULL, js |-> op[w].msg.ptr]
              /\ pc' = [pc EXCEPT ![w] = "idle"]
              /\ acct' = AcctOf(TRUE, mem[op[w].msg.ptr])
              /\ UNCHANGED <<revision, mem, op, ljs, ret, crashed, calls, notAgg>>

\* SMUpdateJobpartCreated (lines 165-176): js := jstm.js is read before Lock.
\* The read races with the write of InitStatusMgr; it yields the pointer
\* stored before or after that write, which is what taking the read as a
\* step of its own gives.
CallSMUpdateJobpartCreated(w) ==
    \E msg \in JobPartCreatedMsgs :
        Enter(w, "pointer", "SMUpdateJobpartCreated", msg, jstm.js)

SMUpdateJobpartCreated(w) ==
    /\ InBody(w, "SMUpdateJobpartCreated")
    /\ IF ljs[w] = NULL
         THEN NilDereference(w)
         ELSE /\ mem' = [mem EXCEPT
                           ![ljs[w]] = SMUpdateJobpartCreatedBody(@, op[w].msg)]
              /\ acct' = AcctCreated(acct, op[w].msg)
              /\ Return(w)
              /\ UNCHANGED <<revision, op, ljs, ret, crashed, calls, notAgg>>

\* SMUpdateXferDone (lines 178-197): js := jstm.js is read before Lock.  Only
\* the three known cases dereference js.
CallSMUpdateXferDone(w) ==
    \E msg \in XferDoneMsgs :
        Enter(w, "pointer", "SMUpdateXferDone", msg, jstm.js)

SMUpdateXferDone(w) ==
    /\ InBody(w, "SMUpdateXferDone")
    /\ IF ljs[w] = NULL /\ op[w].msg.TransferStatus \notin {"NotStarted", "InProgress"}
         THEN NilDereference(w)
         ELSE /\ mem' = IF ljs[w] = NULL THEN mem
                        ELSE [mem EXCEPT
                                ![ljs[w]] = SMUpdateXferDoneBody(@, op[w].msg)]
              /\ acct' = AcctDone(acct)
              /\ Return(w)
              /\ UNCHANGED <<revision, op, ljs, ret, crashed, calls, notAgg>>

\* ListJobSummary (lines 199-205): js := *jstm.js under the lock.
CallListJobSummary(w) ==
    Enter(w, "pointer", "ListJobSummary", NoMsg, NULL)

ListJobSummary(w) ==
    /\ InBody(w, "ListJobSummary")
    /\ IF jstm.js = NULL
         THEN NilDereference(w)
         ELSE /\ ret' = [ret EXCEPT
                           ![w] = [has |-> TRUE,
                                   val |-> ListJobSummaryBody(mem[jstm.js])]]
              /\ Return(w)
              /\ UNCHANGED <<revision, mem, op, ljs, crashed, calls, acct, notAgg>>

\* The status manager before any call, in the pointer revision.
AggIdle == AggInit /\ revision = "pointer"

\* ------------------------------------- the plan's transfer status cells

\* A job part of n transfers right after creation: every status word zero.
PlanCreated(n) ==
    /\ NumTransfers = n
    /\ atomicTransferStatus = [i \in 0 .. n - 1 |-> "NotStarted"]
    /\ spc = [w \in Workers |-> "idle"]
    /\ sarg = [w \in Workers |-> [index |-> 0, status |-> "NotStarted"]]
    /\ startVal = [w \in Workers |-> "NotStarted"]
    /\ sets = 0

PlanInit == \E n \in 0 .. MaxTransfers : PlanCreated(n)

\* The plan of a part without transfers, untouched.
PlanIdle == PlanCreated(0)

\* The function SetTransferStatus hands to AtomicMorphInt32 (lines 188-190):
\* Iffint32(startVal == Failed, startVal, status.Value).
PlainStoreMorph(start, status) == status

\* A morph that keeps Success as well as Failed.
TerminalKeptMorph(start, status) ==
    IF start \in {"Failed", "Success"} THEN start ELSE status

SetTransferStatusMorph(start, status) ==
    IF start = "Failed" THEN start ELSE status

\* The statuses the transfer workers write: progress, the two ends of a
\* transfer and one skip.
WrittenStatuses == {"InProgress", "Success", "Failed", "SkippedEntityAlreadyExists"}

\* jppt.SetTransferStatus(status) on record `index` (lines 186-191).
CallSetTransferStatus(w) ==
    /\ spc[w] = "idle"
    /\ sets < MaxSets
    /\ \E i \in 0 .. NumTransfers - 1, s \in WrittenStatuses :
         sarg' = [sarg EXCEPT ![w] = [index |-> i, status |-> s]]
    /\ spc' = [spc EXCEPT ![w] = "load"]
    /\ sets' = sets + 1
    /\ UNCHANGED <<NumTransfers, atomicTransferStatus, startVal, notPlan>>

\* common.AtomicMorphInt32: atomic.LoadInt32 of the target ...
AtomicMorphLoad(w) ==
    /\ spc[w] = "load"
    /\ startVal' = [startVal EXCEPT ![w] = atomicTransferStatus[sarg[w].index]]
    /\ spc' = [spc EXCEPT ![w] = "cas"]
    /\ UNCHANGED <<NumTransfers, atomicTransferStatus, sarg, sets, notPlan>>

\* A compare-and-swap loop that tries again with the value it loaded first.
AtomicMorphCASNoReload(w) ==
    /\ spc[w] = "cas"
    /\ LET i == sarg[w].index
           val == SetTransferStatusMorph(startVal[w], sarg[w].status)
       IN  IF atomicTransferStatus[i] = startVal[w]
             THEN /\ atomicTransferStatus' = [atomicTransferStatus EXCEPT ![i] = val]
                  /\ spc' = [spc EXCEPT ![w] = "idle"]
             ELSE UNCHANGED <<atomicTransferStatus, spc>>
    /\ UNCHANGED <<NumTransfers, sarg, startVal, sets, notPlan>>

\* ... then atomic.CompareAndSwapInt32(target, startVal, morphed): return
\* when it succeeds, load again when it fails.
AtomicMorphCAS(w) ==
    /\ spc[w] = "cas"
    /\ LET i == sarg[w].index
           val == SetTransferStatusMorph(startVal[w], sarg[w].status)
       IN  IF atomicTransferStatus[i] = startVal[w]
             THEN /\ atomicTransferStatus' = [atomicTransferStatus EXCEPT ![i] = val]
                  /\ spc' = [spc EXCEPT ![w] = "idle"]
             ELSE /\ spc' = [spc EXCEPT ![w] = "load"]
                  /\ UNCHANGED atomicTransferStatus
    /\ UNCHANGED <<NumTransfers, sarg, startVal, sets, notPlan>>

\* ------------------------------- two runs over the same outcomes

\* Outcomes the two runs are fed: one or two of each bucket and one that
\* is no terminal outcome.
OrderMsgs ==
    {m \in XferDoneMsgs :
        m.TransferStatus \in {"Success", "Failed", "BlobTierFailure",
                              "SkippedBlobHasSnapshots", "InProgress"}}

OrderInit ==
    /\ \E n \in 0 .. MaxOutcomes : outcomes \in [1 .. n -> OrderMsgs]
    /\ \E s \in {"fresh", "resumed"} : sumA = SummaryOf(s) /\ sumB = SummaryOf(s)
    /\ doneA = {}
    /\ doneB = {}

OrderIdle ==
    /\ outcomes = <<>>
    /\ sumA = ZeroSummary
    /\ sumB = ZeroSummary
    /\ doneA = {}
    /\ doneB = {}

\* The build's transfer-done update: SendXferDoneMsg or SMUpdateXferDone.
XferDone(js, msg) ==
    IF revision = "value" THEN SendXferDoneMsgBody(js, msg)
                          ELSE SMUpdateXferDoneBody(js, msg)

\* Run A reports the outcome at position i.
ReportA(i) ==
    /\ i \in (1 .. Len(outcomes)) \ doneA
    /\ sumA' = XferDone(sumA, outcomes[i])
    /\ doneA' = doneA \cup {i}
    /\ UNCHANGED <<outcomes, sumB, doneB, notOrder>>

\* Run B reports the outcome at position i.
ReportB(i) ==
    /\ i \in (1 .. Len(outcomes)) \ doneB
    /\ sumB' = XferDone(sumB, outcomes[i])
    /\ doneB' = doneB \cup {i}
    /\ UNCHANGED <<outcomes, sumA, doneA, notOrder>>

\* ------------------------------------------- the plan file's layout

\* unsafe.Sizeof(JobPartPlanHeader{}) (lines 37-58) with the fields of
\* package common as Version, PartNumber 4 bytes, JobID 16 bytes, JobPriority,
\* FromTo, LogLevel 1 byte and JobStatus 4 bytes, and
\* unsafe.Sizeof(JobPartPlanTransfer{}) (lines 154-178), both as the 64-bit
\* compiler lays the fields out.
HeaderSize == 1600
RecordSize == 48

\* Path strings written into the blob, one byte per element: sources and
\* destinations, each with the string of no byte.
SrcPaths == {<<>>, <<"a", "b">>}
DstPaths == {<<>>, <<"c">>}

\* A byte of the header or of a record read as text, and a byte read from
\* memory the region does not own.
BinaryByte == "#"
ForeignByte == "?"

\* The values of the job status word the callers store.
JobStatuses == {"InProgress", "Cancelled"}

\* The FromTo values: the zero value, the four named in xfer.go and one
\* that no constructor of the type returns.
FromTos == {"Unknown", "BlobLocal", "LocalBlob", "FileLocal", "LocalFile", "Undefined"}

\* What an accessor call came to.
NoRes ==
    [op |-> "none", index |-> 0, fromTo |-> "Unknown", live |-> TRUE,
     outcome |-> "ok", ptr |-> 0, src |-> <<>>, dst |-> <<>>, status |-> "none"]

\* Where the string blob of a part of n transfers starts.
BlobStart(n) == HeaderSize + RecordSize * n

\* The blob of the first k transfers of strs: per transfer in index order
\* the source bytes, then the destination bytes.
RECURSIVE BlobOf(_, _)
BlobOf(strs, k) ==
    IF k = 0 THEN <<>>
    ELSE BlobOf(strs, k - 1) \o strs[k - 1].src \o strs[k - 1].dst

\* The record the writer fills in for transfer i of strs.
RecordOf(strs, n, i) ==
    [SrcOffset |-> BlobStart(n) + Len(BlobOf(strs, i)),
     SrcLength |-> Len(strs[i].src),
     DstLength |-> Len(strs[i].dst)]

\* A plan file of n transfers with the strings strs, mapped again after
\* `cut` bytes were lost from the end of the file.
LayoutCreated(n, strs, cut) ==
    /\ mapped = TRUE
    /\ records = [i \in 0 .. n - 1 |-> RecordOf(strs, n, i)]
    /\ blob = SubSeq(BlobOf(strs, n), 1, Len(BlobOf(strs, n)) - cut)
    /\ written = strs
    /\ atomicJobStatus = "InProgress"
    /\ res = NoRes

LayoutInit(n) ==
    \E strs \in [0 .. n - 1 -> [src : SrcPaths, dst : DstPaths]] :
        \E cut \in {c \in {0, 1} : c <= Len(BlobOf(strs, n))} :
            LayoutCreated(n, strs, cut)

\* The layout of a part without transfers, untouched.
LayoutIdle == LayoutCreated(0, <<>>, 0)

\* The mapped region: header, records, blob.
RegionLen == BlobStart(NumTransfers) + Len(blob)

\* The process runs: no access has faulted.
Running == res.outcome # "fault"

\* What a use of memory the process does not own can come to: the fault
\* the hardware raises, or the access going through to whatever is there.
ForeignOutcomes == {"fault", "ok"}

\* A range check that lets the index NumTransfers through.
TransferPanicsPastEnd(transferIndex, n) == transferIndex > n

\* if transferIndex >= jpph.NumTransfers { panic(...) } (lines 73-75).
TransferPanics(transferIndex, n) == transferIndex >= n

\* A record address that steps by one byte per index.
TransferOffsetUnscaled(transferIndex) == HeaderSize + transferIndex

\* jpph + Sizeof(*jpph) + Sizeof(JobPartPlanTransfer{}) * transferIndex
\* (line 79), as an offset from jpph.
TransferOffset(transferIndex) == HeaderSize + RecordSize * transferIndex

\* jpph.Transfer(transferIndex) (lines 71-80).
Transfer(transferIndex) ==
    /\ Running
    /\ LET call == [NoRes EXCEPT !.op = "Transfer", !.index = transferIndex,
                                 !.live = mapped]
           found == [call EXCEPT !.ptr = TransferOffset(transferIndex)]
           panic == [call EXCEPT !.outcome = "panic"]
       IN  IF mapped
             THEN res' = IF TransferPanics(transferIndex, NumTransfers)
                           THEN panic ELSE found
             ELSE res' \in {found, panic, [call EXCEPT !.outcome = "fault"]}
    /\ UNCHANGED <<mapped, records, blob, written, atomicJobStatus, notLayout>>

\* The byte at offset o from jpph, when reading it does not fault.
ByteAt(o) ==
    IF 0 <= o /\ o < BlobStart(NumTransfers) THEN BinaryByte
    ELSE IF BlobStart(NumTransfers) <= o /\ o < RegionLen
           THEN blob[o - BlobStart(NumTransfers) + 1]
           ELSE ForeignByte

\* string(slice) of a slice header with Data = jpph + off and Len = len.
ReadString(off, len) == [k \in 1 .. len |-> ByteAt(off + k - 1)]

\* The len bytes at off all lie in the mapped region; a string of no byte
\* reads none.
WithinRegion(off, len) == len = 0 \/ (0 <= off /\ off + len <= RegionLen)

\* A destination read from where the source starts.
DstOffsetAtSrc(jppt) == jppt.SrcOffset

\* Where the destination string starts: jppt.SrcOffset + jppt.SrcLength
\* from jpph (line 94).
DstOffset(jppt) == jppt.SrcOffset + jppt.SrcLength

\* jpph.TransferSrcDstStrings(transferIndex) (lines 83-99).
TransferSrcDstStrings(transferIndex) ==
    /\ Running
    /\ LET call == [NoRes EXCEPT !.op = "TransferSrcDstStrings",
                                 !.index = transferIndex, !.live = mapped]
           panic == [call EXCEPT !.outcome = "panic"]
           fault == [call EXCEPT !.outcome = "fault"]
       IN  IF ~mapped
             THEN res' \in {fault, panic,
                            [call EXCEPT !.src = <<ForeignByte>>,
                                         !.dst = <<ForeignByte>>]}
             ELSE IF TransferPanics(transferIndex, NumTransfers)
               THEN res' = panic
               ELSE LET jppt == records[transferIndex]
                        read == [call EXCEPT
                                   !.ptr = TransferOffset(transferIndex),
                                   !.src = ReadString(jppt.SrcOffset, jppt.SrcLength),
                                   !.dst = ReadString(DstOffset(jppt), jppt.DstLength)]
                    IN  IF /\ WithinRegion(jppt.SrcOffset, jppt.SrcLength)
                           /\ WithinRegion(DstOffset(jppt), jppt.DstLength)
                          THEN res' = read
                          ELSE res' \in {fault, read}
    /\ UNCHANGED <<mapped, records, blob, written, atomicJobStatus, notLayout>>

\* jpph.Transfer(transferIndex).TransferStatus() (lines 181-183).
TransferStatus(transferIndex) ==
    /\ Running
    /\ LET call == [NoRes EXCEPT !.op = "TransferStatus",
                                 !.index = transferIndex, !.live = mapped]
           panic == [call EXCEPT !.outcome = "panic"]
           fault == [call EXCEPT !.outcome = "fault"]
       IN  IF ~mapped
             THEN res' \in {fault, panic}
                           \cup {[call EXCEPT !.status = s] : s \in TransferStatuses}
             ELSE IF TransferPanics(transferIndex, NumTransfers)
               THEN res' = panic
               ELSE res' = [call EXCEPT
                              !.ptr = TransferOffset(transferIndex),
                              !.status = atomicTransferStatus[transferIndex]]
    /\ UNCHANGED <<mapped, records, blob, written, atomicJobStatus, notLayout>>

\* jpph.JobStatus() (lines 61-63).
JobStatus ==
    /\ Running
    /\ LET call == [NoRes EXCEPT !.op = "JobStatus", !.live = mapped]
       IN  IF mapped
             THEN res' = [call EXCEPT !.status = atomicJobStatus]
             ELSE res' \in {[call EXCEPT !.outcome = "fault"]}
                           \cup {[call EXCEPT !.status = s] : s \in JobStatuses}
    /\ UNCHANGED <<mapped, records, blob, written, atomicJobStatus, notLayout>>

\* A store of eight bytes at the job status word, the last four bytes of the
\* header: it runs over the SrcOffset of the first record.
SetJobStatusWide(status) ==
    /\ Running
    /\ mapped
    /\ atomicJobStatus' = status
    /\ res' = [NoRes EXCEPT !.op = "SetJobStatus", !.status = status]
    /\ records' = [i \in DOMAIN records |->
                     IF i = 0 THEN [records[i] EXCEPT !.SrcOffset = 0]
                              ELSE records[i]]
    /\ UNCHANGED <<mapped, blob, written, notLayout>>

\* jpph.SetJobStatus(status) (lines 66-68); after Unmap the store faults or
\* lands in memory that is no longer the plan's.
SetJobStatus(status) ==
    /\ Running
    /\ LET call == [NoRes EXCEPT !.op = "SetJobStatus", !.live = mapped,
                                 !.status = status]
       IN  IF mapped
             THEN /\ atomicJobStatus' = status
                  /\ res' = call
             ELSE /\ res' \in {[call EXCEPT !.outcome = o] : o \in ForeignOutcomes}
                  /\ UNCHANGED atomicJobStatus
    /\ UNCHANGED <<mapped, records, blob, written, notLayout>>

\* mmf.Unmap() (line 32): common.MMF.Unmap releases the mapping.  The header
\* and record pointers the callers hold stay what they were.
Unmap ==
    /\ Running
    /\ mapped
    /\ mapped' = FALSE
    /\ res' = [NoRes EXCEPT !.op = "Unmap"]
    /\ UNCHANGED <<records, blob, written, atomicJobStatus, notLayout>>

\* ------------------------------------------------ choosing the strategy

\* A dispatch without the two cases marked TODO.
computeJobXferNilIsPanic(fromTo) ==
    CASE fromTo = "BlobLocal" -> [outcome |-> "ok", xfer |-> "BlobToLocalPrologue"]
      [] fromTo = "LocalBlob" -> [outcome |-> "ok", xfer |-> "LocalToBlockBlob"]
      [] OTHER -> [outcome |-> "panic", xfer |-> "nil"]

\* computeJobXfer(fromTo) (src/ste/xfer.go lines 52-64): the newJobXfer of
\* the pair, nil for the two pairs marked TODO, a panic for any other value.
computeJobXfer(fromTo) ==
    CASE fromTo = "BlobLocal" -> [outcome |-> "ok", xfer |-> "BlobToLocalPrologue"]
      [] fromTo = "LocalBlob" -> [outcome |-> "ok", xfer |-> "LocalToBlockBlob"]
      [] fromTo = "FileLocal" -> [outcome |-> "ok", xfer |-> "nil"]
      [] fromTo = "LocalFile" -> [outcome |-> "ok", xfer |-> "nil"]
      [] OTHER -> [outcome |-> "panic", xfer |-> "nil"]

\* A caller asks for the strategy of fromTo.
CallComputeJobXfer(fromTo) ==
    /\ Running
    /\ res' = [NoRes EXCEPT !.op = "computeJobXfer", !.fromTo = fromTo,
                            !.live = mapped,
                            !.outcome = computeJobXfer(fromTo).outcome,
                            !.status = computeJobXfer(fromTo).xfer]
    /\ UNCHANGED <<mapped, records, blob, written, atomicJobStatus, notLayout>>

\* ------------------------------------------------------ specifications

\* The status manager under concurrent callers.
Init == AggInit /\ PlanIdle /\ OrderIdle /\ LayoutIdle

Next ==
    \E w \in Workers :
        \/ Lock(w)
        \/ CallSendJobPartCreatedMsg(w)
        \/ SendJobPartCreatedMsg(w)
        \/ CallSendXferDoneMsg(w)
        \/ SendXferDoneMsg(w)
        \/ CallListJobSummaryByValue(w)
        \/ ListJobSummaryByValue(w)
        \/ CallResurrectSummary(w)
        \/ ResurrectSummary(w)
        \/ CallInitStatusMgr(w)
        \/ InitStatusMgr(w)
        \/ CallSMUpdateJobpartCreated(w)
        \/ SMUpdateJobpartCreated(w)
        \/ CallSMUpdateXferDone(w)
        \/ SMUpdateXferDone(w)
        \/ CallListJobSummary(w)
        \/ ListJobSummary(w)

Spec == Init /\ [][Next]_vars

\* The plan's status cells under concurrent writers.
PlanSpecInit == AggIdle /\ PlanInit /\ OrderIdle /\ LayoutIdle

PlanNext ==
    \E w \in Workers :
        \/ CallSetTransferStatus(w)
        \/ AtomicMorphLoad(w)
        \/ AtomicMorphCAS(w)

PlanSpec == PlanSpecInit /\ [][PlanNext]_vars

\* The same with every worker scheduled again and again: a call that has
\* started goes on to its load and to its compare-and-swap.
FairPlanSpec ==
    /\ PlanSpecInit
    /\ [][PlanNext]_vars
    /\ \A w \in Workers :
          WF_vars(AtomicMorphLoad(w)) /\ WF_vars(AtomicMorphCAS(w))

\* The same outcomes reported in two orders.
OrderSpecInit == AggInit /\ PlanIdle /\ OrderInit /\ LayoutIdle

OrderNext ==
    \E i \in 1 .. MaxOutcomes :
        \/ ReportA(i)
        \/ ReportB(i)

OrderSpec == OrderSpecInit /\ [][OrderNext]_vars

\* One holder of the header pointer reading the plan file.
LayoutSpecInit ==
    /\ AggIdle
    /\ OrderIdle
    /\ \E n \in 0 .. MaxTransfers : PlanCreated(n) /\ LayoutInit(n)

LayoutNext ==
    \/ \E transferIndex \in 0 .. MaxTransfers + 1 :
          \/ Transfer(transferIndex)
          \/ TransferSrcDstStrings(transferIndex)
          \/ TransferStatus(transferIndex)
    \/ JobStatus
    \/ \E status \in JobStatuses : SetJobStatus(status)
    \/ Unmap
    \/ \E fromTo \in FromTos : CallComputeJobXfer(fromTo)

LayoutSpec == LayoutSpecInit /\ [][LayoutNext]_vars

\* Workers setting transfer statuses while the job status is set.
CellStrings(n) == [i \in 0 .. n - 1 |-> [src |-> <<"a", "b">>, dst |-> <<"c">>]]

CellSpecInit ==
    /\ AggIdle
    /\ OrderIdle
    /\ \E n \in 0 .. MaxTransfers :
          PlanCreated(n) /\ LayoutCreated(n, CellStrings(n), 0)

CellNext ==
    \/ \E w \in Workers :
          \/ CallSetTransferStatus(w)
          \/ AtomicMorphLoad(w)
          \/ AtomicMorphCAS(w)
    \/ \E status \in JobStatuses : SetJobStatus(status)

CellSpec == CellSpecInit /\ [][CellNext]_vars

\* ================================================================ claims

\* The transfer-status word of record i.
StatusOf(i) == atomicTransferStatus[i]

\* C1: for one transfer record, under any interleaving of workers calling
\* SetTransferStatus, a status word that equals Failed equals Failed in the
\* next state, so Failed once set is what every later read observes.
C1_FailedIsSticky ==
    [][\A i \in DOMAIN atomicTransferStatus :
          StatusOf(i) = "Failed" => atomicTransferStatus'[i] = "Failed"]_vars

\* A SetTransferStatus call with another status has loaded Failed, has had
\* its compare-and-swap succeed and has returned; the record still is Failed.
C1_Witness ==
    \E w \in Workers :
        /\ spc[w] = "idle"
        /\ sarg[w].status \notin {"Failed", "NotStarted"}
        /\ startVal[w] = "Failed"
        /\ sarg[w].index \in DOMAIN atomicTransferStatus
        /\ StatusOf(sarg[w].index) = "Failed"

\* ------------------------------------------- the status manager's claims

\* The names the two revisions give to the four operations.
InitNames == {"ResurrectSummary", "InitStatusMgr"}
PartCreatedNames == {"SendJobPartCreatedMsg", "SMUpdateJobpartCreated"}
XferDoneNames == {"SendXferDoneMsg", "SMUpdateXferDone"}
SnapshotNames == {"ListJobSummaryByValue", "ListJobSummary"}

\* This step is worker w leaving the critical section of one of `names`.
Leaves(w, names) ==
    /\ pc[w] = "body"
    /\ op[w].name \in names
    /\ pc'[w] # "body"

\* This step is worker w returning normally from one of `names`.
Returns(w, names) ==
    /\ pc[w] = "body"
    /\ op[w].name \in names
    /\ pc'[w] = "idle"

\* A summary is installed, and Installed is it.
HasSummary == jstm.js # NULL
Installed == mem[jstm.js]

FailureStatuses == {"Failed", "TierAvailabilityCheckFailure", "BlobTierFailure"}
SkipStatuses == {"SkippedEntityAlreadyExists", "SkippedBlobHasSnapshots"}

C3_OneBucket ==
    [][\A w \in Workers :
          (HasSummary /\ Returns(w, XferDoneNames)) =>
              LET msg == op[w].msg
                  s == Installed
                  t == mem'[jstm.js]
              IN  /\ jstm'.js = jstm.js
                  /\ msg.TransferStatus = "Success" =>
                        t = [s EXCEPT
                               !.TransfersCompleted = @ + 1,
                               !.TotalBytesTransferred = @ + msg.TransferSize]
                  /\ msg.TransferStatus \in FailureStatuses =>
                        t = [s EXCEPT
                               !.TransfersFailed = @ + 1,
                               !.FailedTransfers = @ \o <<msg>>]
                  /\ msg.TransferStatus \in SkipStatuses =>
                        t = [s EXCEPT
                               !.TransfersSkipped = @ + 1,
                               !.SkippedTransfers = @ \o <<msg>>]]_vars

\* On a fresh summary one success of size 2, one blob-tier failure and one
\* skip have been recorded.
C3_Witness ==
    /\ HasSummary
    /\ acct.seed = ZeroSummary
    /\ acct.nUpd = 3
    /\ Installed.TransfersCompleted = 1
    /\ Installed.TotalBytesTransferred = 2
    /\ Installed.TransfersFailed = 1
    /\ Len(Installed.FailedTransfers) = 1
    /\ Installed.FailedTransfers[1].TransferStatus = "BlobTierFailure"
    /\ Installed.TransfersSkipped = 1

\* C4: a recordTransferDone call whose status is none of the six terminal
\* variants leaves every summary, with every count, byte counter, flag and
\* detail list, as it was.
C4_UnknownStatusNoOp ==
    [][\A w \in Workers :
          (Returns(w, XferDoneNames)
             /\ op[w].msg.TransferStatus \notin
                    {"Success"} \cup FailureStatuses \cup SkipStatuses)
              => (mem' = mem /\ jstm'.js = jstm.js)]_vars

\* An InProgress outcome has been reported to a summary that holds counts,
\* and the call has returned.
C4_Witness ==
    \E w \in Workers :
        /\ pc[w] = "idle"
        /\ op[w].name \in XferDoneNames
        /\ op[w].msg.TransferStatus = "InProgress"
        /\ HasSummary
        /\ Installed.TotalTransfers > 0

\* The counts and lists that record transfer outcomes.
Outcomes(s) ==
    <<s.TransfersCompleted, s.TransfersFailed, s.TransfersSkipped,
      s.TotalBytesTransferred, s.FailedTransfers, s.SkippedTransfers>>

C6_FlagMonotone ==
    [][(acct.anyFinal /\ acct'.anyFinal /\ HasSummary) =>
          /\ mem'[jstm'.js].CompleteJobOrdered
          /\ \A w \in Workers :
                Returns(w, SnapshotNames) => ret'[w].val.CompleteJobOrdered]_vars

\* Every transfer count, byte counter and detail list of a summary.
Accounting(s) ==
    <<s.TotalTransfers, s.FileTransfers, s.FolderPropertyTransfers,
      s.TotalBytesEnumerated, s.TotalBytesExpected, s.TotalBytesTransferred,
      s.TransfersCompleted, s.TransfersFailed, s.TransfersSkipped,
      s.FailedTransfers, s.SkippedTransfers>>

\* C7: a snapshot returns the counts, byte counters and detail lists of the
\* installed summary and leaves them as they were.
C7_SnapshotReadOnly ==
    [][\A w \in Workers :
          Returns(w, SnapshotNames) =>
              /\ jstm'.js = jstm.js
              /\ Accounting(mem'[jstm.js]) = Accounting(Installed)
              /\ Accounting(ret'[w].val) = Accounting(Installed)]_vars

\* A snapshot of a summary that holds a completed transfer and its bytes has
\* been returned, and the summary still holds them.
C7_Witness ==
    \E w \in Workers :
        /\ pc[w] = "idle"
        /\ op[w].name \in SnapshotNames
        /\ ret[w].has
        /\ ret[w].val.TransfersCompleted > 0
        /\ ret[w].val.TotalBytesTransferred > 0
        /\ HasSummary
        /\ Accounting(Installed) = Accounting(ret[w].val)

ExceptTimestamp(s) == [s EXCEPT !.Timestamp = 0]

\* C8: after init with a non-zero summary S and no update, a snapshot returns
\* S in every field but the timestamp.
C8_ResumeRoundTrip ==
    [][\A w \in Workers :
          (acct.installed /\ acct.seed # ZeroSummary /\ acct.nUpd = 0
             /\ Returns(w, SnapshotNames))
              => ExceptTimestamp(ret'[w].val) = ExceptTimestamp(acct.seed)]_vars

\* Counts and lists of one summary agree.
Consistent(s) ==
    /\ s.TransfersFailed = Len(s.FailedTransfers)
    /\ s.TransfersSkipped = Len(s.SkippedTransfers)
    /\ \A i \in DOMAIN s.FailedTransfers :
          s.FailedTransfers[i].TransferStatus \in FailureStatuses
    /\ \A i \in DOMAIN s.SkippedTransfers :
          s.SkippedTransfers[i].TransferStatus \in SkipStatuses

\* C10: in every reachable state, under any interleaving of the workers, the
\* summary objects and every snapshot returned have TransfersFailed equal to
\* the length of FailedTransfers and TransfersSkipped to the length of
\* SkippedTransfers, the former list holding failure variants only and the
\* latter skip variants only.
C10_CountsMatchLists ==
    /\ \A a \in Addrs : Consistent(mem[a])
    /\ \A w \in Workers : ret[w].has => Consistent(ret[w].val)

\* A snapshot holding a failure and a skip reported in this run has been
\* returned.
C10_Witness ==
    \E w \in Workers :
        /\ ret[w].has
        /\ acct.seed = ZeroSummary
        /\ ret[w].val.TransfersFailed = 1
        /\ ret[w].val.TransfersSkipped = 1

\* ----------------------------------------------------- order of reports

\* How often m occurs in the sequence q.
Count(q, m) == Cardinality({i \in DOMAIN q : q[i] = m})

\* The sequences a and b hold the same elements the same number of times.
SameBag(a, b) ==
    /\ Len(a) = Len(b)
    /\ \A i \in DOMAIN a : Count(a, a[i]) = Count(b, a[i])

AllReported == doneA = DOMAIN outcomes /\ doneB = DOMAIN outcomes

\* C9: two runs that start from the same summary and are reported the same
\* multiset of outcomes, each in its own order, end with the same
\* TransfersCompleted, TransfersFailed, TransfersSkipped and
\* TotalBytesTransferred, and with FailedTransfers and SkippedTransfers equal
\* as multisets.
C9_OrderIndependent ==
    AllReported =>
        /\ sumA.TransfersCompleted = sumB.TransfersCompleted
        /\ sumA.TransfersFailed = sumB.TransfersFailed
        /\ sumA.TransfersSkipped = sumB.TransfersSkipped
        /\ sumA.TotalBytesTransferred = sumB.TotalBytesTransferred
        /\ SameBag(sumA.FailedTransfers, sumB.FailedTransfers)
        /\ SameBag(sumA.SkippedTransfers, sumB.SkippedTransfers)

\* Both runs have been reported everything, a success with bytes among it,
\* and the orders differed: the failure lists are not the same sequence.
C9_Witness ==
    /\ AllReported
    /\ sumA.FailedTransfers # sumB.FailedTransfers
    /\ \E i \in DOMAIN outcomes :
          /\ outcomes[i].TransferStatus = "Success"
          /\ outcomes[i].TransferSize > 0

\* ------------------------------------------------ the plan file's claims

\* The fields of the plan: the header's, the records' and the blob.
PlanFields ==
    <<NumTransfers, atomicTransferStatus, atomicJobStatus, records, blob, mapped>>

\* The last call was `name` on the mapped plan.
LiveCall(name) == res.op = name /\ res.live

\* C11: on a mapped plan, Transfer(index) panics exactly when index >=
\* NumTransfers (also when NumTransfers is 0) and otherwise returns a record
\* reference; no Transfer call, failing or not, changes a field of the plan.
C11_TransferRangeCheck ==
    /\ [](LiveCall("Transfer") =>
            /\ res.outcome \in {"ok", "panic"}
            /\ res.outcome = "panic" <=> res.index >= NumTransfers)
    /\ [][res'.op = "Transfer" => PlanFields' = PlanFields]_vars

\* Transfer(0) on a part without transfers has panicked.
C11_Witness ==
    /\ LiveCall("Transfer")
    /\ NumTransfers = 0
    /\ res.index = 0
    /\ res.outcome = "panic"

\* The byte range [from, to) of the header and of the record at offset ptr.
HeaderRange == [from |-> 0, to |-> HeaderSize]
RecordRange(ptr) == [from |-> ptr, to |-> ptr + RecordSize]

\* Two byte ranges share no byte.
Disjoint(a, b) == a.to <= b.from \/ b.to <= a.from

\* C12: for 0 <= i < NumTransfers the reference Transfer(i) returns is the
\* byte range [headerSize + i*recordSize, headerSize + (i+1)*recordSize); it
\* shares no byte with the header nor with the range of Transfer(j), j # i.
C12_RecordsDisjoint ==
    LiveCall("Transfer") /\ res.outcome = "ok" =>
        LET i == res.index
            range == RecordRange(res.ptr)
        IN  /\ range.from = HeaderSize + i * RecordSize
            /\ range.to = HeaderSize + (i + 1) * RecordSize
            /\ Disjoint(range, HeaderRange)
            /\ \A j \in (0 .. NumTransfers - 1) \ {i} :
                   Disjoint(range, RecordRange(TransferOffset(j)))

\* Transfer has returned the last of two records.
C12_Witness ==
    /\ LiveCall("Transfer")
    /\ res.outcome = "ok"
    /\ NumTransfers = 2
    /\ res.index = 1

\* The region holds every byte the writer laid out: source then destination
\* of each transfer, back to back in index order.
Intact == blob = BlobOf(written, NumTransfers)

\* C13: on a mapped plan whose strings were written source-then-destination
\* contiguously, TransferSrcDstStrings(i) returns for every i < NumTransfers
\* exactly the source and the destination given at creation, also when one
\* of them has no byte or ends at the last byte of the blob.
C13_StringsRoundTrip ==
    /\ LiveCall("TransferSrcDstStrings")
    /\ res.index < NumTransfers
    /\ Intact
    => /\ res.outcome = "ok"
       /\ res.src = written[res.index].src
       /\ res.dst = written[res.index].dst

\* The strings of the last of two transfers were read: a source of no byte
\* and a destination that ends at the last byte of the blob, after a first
\* transfer with both strings.
C13_Witness ==
    /\ LiveCall("TransferSrcDstStrings")
    /\ Intact
    /\ NumTransfers = 2
    /\ res.index = 1
    /\ res.outcome = "ok"
    /\ written[0].src # <<>>
    /\ written[0].dst # <<>>
    /\ written[1].src = <<>>
    /\ res.dst # <<>>
    /\ DstOffset(records[1]) + records[1].DstLength = RegionLen

\* C14: TransferSrcDstStrings(i) on a mapped plan fails, and returns no
\* bytes, whenever the source range or the destination range it computes
\* from the record reaches beyond the mapped region.
C14_OutOfRegionFails ==
    /\ LiveCall("TransferSrcDstStrings")
    /\ res.index < NumTransfers
    /\ \/ ~WithinRegion(records[res.index].SrcOffset, records[res.index].SrcLength)
       \/ ~WithinRegion(records[res.index].SrcOffset + records[res.index].SrcLength,
                        records[res.index].DstLength)
    => res.outcome # "ok"

\* The accessors of the plan file that go through the header pointer.
PlanAccessors ==
    {"Transfer", "TransferSrcDstStrings", "TransferStatus", "JobStatus",
     "SetJobStatus"}

\* C15: once Unmap has been called, every later accessor call on the plan
\* file fails: none returns a value read from, or stores into, the region
\* that was released.
C15_NoUseAfterUnmap ==
    res.op \in PlanAccessors /\ ~res.live => res.outcome # "ok"

\* ------------------------------------------------- the strategy's claim

\* The strategy each implemented pair is to get.
StrategyOf ==
    [BlobLocal |-> "BlobToLocalPrologue", LocalBlob |-> "LocalToBlockBlob"]

\* The pairs that are defined and have no strategy yet.
NotYetImplemented == {"FileLocal", "LocalFile"}

\* C16: computeJobXfer gives every FromTo value one of three outcomes that
\* a caller can tell apart: the pair's strategy for BlobLocal and LocalBlob;
\* a normal return of the nil strategy, which stands for "not supported",
\* and no panic for FileLocal and LocalFile; a panic for every other value.
C16_ThreeOutcomes ==
    res.op = "computeJobXfer" =>
        /\ res.fromTo \in DOMAIN StrategyOf =>
              res.outcome = "ok" /\ res.status = StrategyOf[res.fromTo]
        /\ res.fromTo \in NotYetImplemented =>
              res.outcome = "ok" /\ res.status = "nil"
        /\ res.fromTo \notin DOMAIN StrategyOf \cup NotYetImplemented =>
              res.outcome = "panic"

\* computeJobXfer has returned for a pair that is not implemented yet.
C16_Witness ==
    /\ res.op = "computeJobXfer"
    /\ res.fromTo = "FileLocal"
    /\ res.outcome = "ok"
    /\ res.status = "nil"

\* ------------------------------------- the status manager under contention

\* Every field of a summary that an update writes.
UpdateFields(s) == <<s.CompleteJobOrdered, Accounting(s)>>

\* No call on the status manager is in progress.
AllReturned == \A w \in Workers : pc[w] = "idle"

\* C17: updates are atomic.  The bodies of the updates are single steps taken
\* with the lock held, so the installed summary is at every moment the result
\* of the updates applied so far, each completely, one after the other.  A
\* snapshot returns that summary in every field an update writes, and once
\* every call has returned the part totals are the installed ones plus the
\* sums over all reported parts.
C17_AtomicUpdates ==
    /\ [][\A w \in Workers :
            (HasSummary /\ Returns(w, SnapshotNames)) =>
                UpdateFields(ret'[w].val) = UpdateFields(Installed)]_vars
    /\ []((HasSummary /\ AllReturned) =>
            /\ Installed.TotalTransfers
                  = acct.seed.TotalTransfers + acct.totalTransfers
            /\ Installed.FileTransfers
                  = acct.seed.FileTransfers + acct.fileTransfers
            /\ Installed.FolderPropertyTransfers
                  = acct.seed.FolderPropertyTransfers + acct.folderTransfer
            /\ Installed.TotalBytesEnumerated
                  = acct.seed.TotalBytesEnumerated + acct.totalBytesEnumerated)

\* The updates of either revision.
UpdateNames == PartCreatedNames \cup XferDoneNames

\* C18: the reference to the installed summary is read and written only
\* with the lock held, so whatever reference an update holds inside its
\* critical section is the one installed: an update that races with init
\* never acts on a reference it read before it had the lock.
C18_ReferenceReadUnderLock ==
    \A w \in Workers :
        (pc[w] = "body" /\ op[w].name \in UpdateNames) => ljs[w] = jstm.js

\* ------------------------------------------ the status cells' claims

\* This step is the return of w's SetTransferStatus call.
SetReturns(w) == spc[w] = "cas" /\ spc'[w] = "idle"

\* C19: a SetTransferStatus(s) call that found its record not Failed leaves
\* the record at s when it returns, whatever s and whatever the status found
\* (Success is overwritten by InProgress); and a status word changes only to
\* the value passed by a call in progress on that record, so after
\* concurrent calls on a record that is not Failed, none passing Failed, the
\* last status is the value one of them passed.
C19_NonFailedReplaced ==
    /\ [][\A w \in Workers :
            (SetReturns(w) /\ startVal[w] # "Failed") =>
                atomicTransferStatus'[sarg[w].index] = sarg[w].status]_vars
    /\ [][\A i \in DOMAIN atomicTransferStatus :
            atomicTransferStatus'[i] # StatusOf(i) =>
                \E w \in Workers :
                    /\ SetReturns(w)
                    /\ sarg[w].index = i
                    /\ atomicTransferStatus'[i] = sarg[w].status]_vars

\* A call passing InProgress found Success, has returned, and the record is
\* InProgress.
C19_Witness ==
    \E w \in Workers :
        /\ spc[w] = "idle"
        /\ sarg[w].status = "InProgress"
        /\ startVal[w] = "Success"
        /\ sarg[w].index \in DOMAIN atomicTransferStatus
        /\ StatusOf(sarg[w].index) = "InProgress"

\* This step is w's compare-and-swap failing.
CASFails(w) == spc[w] = "cas" /\ spc'[w] = "load"

\* C20: with the workers scheduled fairly every SetTransferStatus call
\* returns, and it returns from a compare-and-swap that succeeded (which, on
\* a record found Failed, stores Failed again).  A compare-and-swap fails
\* only when the word differs from the value the caller loaded, and between
\* a caller's load and its compare-and-swap the word comes to differ only
\* through another caller's successful compare-and-swap on that record.
C20_SetTerminates ==
    /\ \A w \in Workers : (spc[w] # "idle") ~> (spc[w] = "idle")
    /\ [][\A w \in Workers :
            LET i == sarg[w].index
            IN  /\ SetReturns(w) => StatusOf(i) = startVal[w]
                /\ CASFails(w) => StatusOf(i) # startVal[w]
                /\ (/\ spc[w] = "cas"
                    /\ StatusOf(i) = startVal[w]
                    /\ atomicTransferStatus'[i] # startVal[w]
                    /\ ~SetReturns(w))
                   => \E v \in Workers \ {w} :
                         SetReturns(v) /\ sarg[v].index = i]_vars

\* One call has returned while another caller of the same record is about
\* to compare-and-swap with a value that is no longer there.
C20_Witness ==
    \E w \in Workers, v \in Workers :
        /\ w # v
        /\ sets >= 2
        /\ spc[w] = "idle"
        /\ spc[v] = "cas"
        /\ sarg[v].index = sarg[w].index
        /\ StatusOf(sarg[v].index) = sarg[w].status
        /\ StatusOf(sarg[v].index) # startVal[v]

\* ------------------------------------------------ the frame of a write

\* The fields of the plan fixed at creation: the header's count, the
\* records' offsets and lengths, and the strings.
Immutable == <<NumTransfers, records, blob>>

\* This step belongs to w's SetTransferStatus call.
SetSteps(w) == spc'[w] # spc[w]

\* C21: status writes are isolated per cell.  A step of SetTransferStatus
\* on record i changes no status word but that of record i, nor the job
\* status, nor a field fixed at creation; a step that changes the job status
\* changes no transfer status and no fixed field; so the status word of a
\* record changes only by the return of a call on that very record, whatever
\* the writers of other records do.
C21_WritesIsolated ==
    [][/\ Immutable' = Immutable
       /\ \A w \in Workers :
             SetSteps(w) =>
                 /\ atomicJobStatus' = atomicJobStatus
                 /\ \A j \in DOMAIN atomicTransferStatus \ {sarg'[w].index} :
                        atomicTransferStatus'[j] = StatusOf(j)
       /\ atomicJobStatus' # atomicJobStatus =>
             /\ atomicTransferStatus' = atomicTransferStatus
             /\ \A w \in Workers : ~SetSteps(w)
       /\ \A j \in DOMAIN atomicTransferStatus :
             atomicTransferStatus'[j] # StatusOf(j) =>
                 \E w \in Workers : SetReturns(w) /\ sarg[w].index = j]_vars

\* Two workers have each set a status on a record of their own, the job
\* status has been set to Cancelled, and each record holds what its writer
\* passed.
C21_Witness ==
    /\ atomicJobStatus = "Cancelled"
    /\ NumTransfers >= 2
    /\ spc["w1"] = "idle"
    /\ spc["w2"] = "idle"
    /\ sarg["w1"].index # sarg["w2"].index
    /\ sarg["w1"].status = "Success"
    /\ sarg["w2"].status = "Failed"
    /\ StatusOf(sarg["w1"].index) = "Success"
    /\ StatusOf(sarg["w2"].index) = "Failed"
    /\ records[0].SrcOffset = BlobStart(NumTransfers)

====
